---- MODULE Spec2Model ----
(***************************************************************************)
(* Model of ucan-key-support/src/ed25519.rs: the Ed25519 key material      *)
(* adapter of rs-ucan (bytes_to_ed25519_key, Ed25519KeyMaterial and its    *)
(* KeyMaterial implementation).                                            *)
(*                                                                         *)
(* Bytes are the integers 0..255, byte strings are sequences of bytes and  *)
(* text is a sequence of one-character strings.  bs58 is modelled by the   *)
(* digit arithmetic it performs.  The ed25519-zebra primitive is modelled  *)
(* as a perfect signature scheme over a small table of key pairs: the      *)
(* length checks of its decoders are exact, its curve arithmetic is        *)
(* replaced by the term it computes (see the section on the primitive).    *)
(***************************************************************************)
EXTENDS Integers, Sequences, FiniteSets, TLC

\* --------------------------------------------------------------- bounds
\* Number of key pairs the model draws from.
NumKeys == 2
\* Longest payload handed to sign and verify.
MaxPayloadLen == 5
\* Number of one-bit mutations of a signature tried by the callers of Spec.
NumFlips == 3

\* ----------------------------------------------------- bytes and results
Zeros(n) == [j \in 1..n |-> 0]

Pow2(k) == IF k = 0 THEN 1 ELSE IF k = 1 THEN 2 ELSE IF k = 2 THEN 4
           ELSE IF k = 3 THEN 8 ELSE IF k = 4 THEN 16 ELSE IF k = 5 THEN 32
           ELSE IF k = 6 THEN 64 ELSE 128

\* The byte string `bytes` with bit i (0-based, bit 0 the least significant
\* bit of the first byte) inverted.
FlipBit(bytes, i) ==
    LET at == (i \div 8) + 1
        m == Pow2(i % 8)
        b == bytes[at]
    IN  [bytes EXCEPT ![at] = IF (b \div m) % 2 = 1 THEN b - m ELSE b + m]

\* anyhow::Result: Ok(value) or Err(error).
Ok(v) == [ok |-> TRUE, val |-> v, err |-> "-"]
Err(e) == [ok |-> FALSE, val |-> <<>>, err |-> e]

\* Option<Ed25519PrivateKey>.
None == [some |-> FALSE, key |-> <<>>]
Some(k) == [some |-> TRUE, key |-> k]

\* ------------------------------------------------------------------ bs58
\* The Bitcoin alphabet, bs58's default.
BS58_ALPHABET ==
    << "1", "2", "3", "4", "5", "6", "7", "8", "9",
       "A", "B", "C", "D", "E", "F", "G", "H", "J", "K", "L", "M", "N",
       "P", "Q", "R", "S", "T", "U", "V", "W", "X", "Y", "Z",
       "a", "b", "c", "d", "e", "f", "g", "h", "i", "j", "k", "m", "n",
       "o", "p", "q", "r", "s", "t", "u", "v", "w", "x", "y", "z" >>

Reverse(s) == [j \in 1..Len(s) |-> s[Len(s) + 1 - j]]

RECURSIVE LeadingCount(_, _)
\* Number of leading elements of s equal to x.
LeadingCount(s, x) ==
    IF s = <<>> \/ Head(s) # x THEN 0 ELSE 1 + LeadingCount(Tail(s), x)

RECURSIVE PushCarry(_, _)
\* The digits (little-endian, radix `radix`) of a carry left over.
PushCarry(carry, radix) ==
    IF carry = 0 THEN <<>>
    ELSE <<carry % radix>> \o PushCarry(carry \div radix, radix)

RECURSIVE MulAdd(_, _, _, _)
\* digits * factor + carry, on little-endian digits of radix `radix`.
MulAdd(digits, factor, carry, radix) ==
    IF digits = <<>> THEN PushCarry(carry, radix)
    ELSE LET t == Head(digits) * factor + carry
         IN  <<t % radix>> \o MulAdd(Tail(digits), factor, t \div radix, radix)

RECURSIVE Convert(_, _, _, _)
\* The little-endian radix-`to` digits of the big-endian radix-`from`
\* number `input`, accumulated onto `acc`.
Convert(input, acc, from, to) ==
    IF input = <<>> THEN acc
    ELSE Convert(Tail(input), MulAdd(acc, from, Head(input), to), from, to)

\* bs58::encode(bytes).into_string(): one "1" per leading zero byte, then
\* the base-58 digits of the rest, most significant first.
bs58_encode(bytes) ==
    LET zeros == LeadingCount(bytes, 0)
        digits == Convert(SubSeq(bytes, zeros + 1, Len(bytes)), <<>>, 256, 58)
    IN  [j \in 1..zeros |-> "1"]
        \o [j \in 1..Len(digits) |-> BS58_ALPHABET[Reverse(digits)[j] + 1]]

\* Index (0-based) of character c in the alphabet, -1 when it is not in it.
Bs58Index(c) ==
    IF \E k \in 1..58 : BS58_ALPHABET[k] = c
    THEN (CHOOSE k \in 1..58 : BS58_ALPHABET[k] = c) - 1
    ELSE -1

\* bs58::decode(text).into_vec(): Err on a character outside the alphabet.
bs58_decode(text) ==
    IF \E j \in 1..Len(text) : Bs58Index(text[j]) = -1
    THEN Err("InvalidCharacter")
    ELSE LET zeros == LeadingCount(text, "1")
             vals == [j \in 1..(Len(text) - zeros) |-> Bs58Index(text[zeros + j])]
         IN  Ok(Zeros(zeros) \o Reverse(Convert(vals, <<>>, 58, 256)))

\* ------------------------------------------- the ed25519-zebra primitive
\* The primitive is outside this crate.  Its decoders are modelled exactly
\* (a verification key is 32 bytes that decompress to a curve point, a
\* signature is any 64 bytes).  Its arithmetic is modelled as a perfect
\* signature scheme: the signature of a message is the 64-byte layout of
\* the term (message, key), and a verification key accepts exactly the
\* signatures its own signing key makes.  The one exception the primitive
\* has by design is kept: a small-order verification key (the identity
\* point) accepts the signature R = identity, s = 0 for every message.

\* Length in bytes of an encoded verification key and of a signing key seed.
KEY_LENGTH == 32
\* Length in bytes of an encoded signature ([u8; 64]).
SIGNATURE_LENGTH == 64

\* Ed25519PrivateKey::new(rng): the i-th signing key the generator yields.
SigningKey(i) == [j \in 1..KEY_LENGTH |-> (17 * i + 3 * j) % 256]

SigningKeys == { SigningKey(i) : i \in 1..NumKeys }

\* Ed25519PublicKey::from(&private_key): the verification key of a signing
\* key (an injective map standing for the scalar multiplication).
PublicOf(sk) == [j \in 1..KEY_LENGTH |-> (5 * sk[j] + 7 * j + 9) % 256]

\* The encoding of the identity point (x = 0, y = 1), a small-order key.
IdentityPoint == <<1>> \o Zeros(KEY_LENGTH - 1)
\* 32 bytes that decompress to no curve point (no x has y = 2).
NotAPoint == <<2>> \o Zeros(KEY_LENGTH - 1)

\* Every value of type Ed25519PublicKey the model handles.
VerificationKeys == { PublicOf(sk) : sk \in SigningKeys } \cup {IdentityPoint}

\* Ed25519PublicKey::try_from(&[u8]).
VerificationKey_try_from(bytes) ==
    IF Len(bytes) # KEY_LENGTH THEN Err("InvalidSliceLength")
    ELSE IF bytes \notin VerificationKeys THEN Err("MalformedPublicKey")
    ELSE Ok(bytes)

\* Signature::try_from(&[u8]): any 64 bytes decode.
Signature_try_from(bytes) ==
    IF Len(bytes) # SIGNATURE_LENGTH THEN Err("InvalidSliceLength")
    ELSE Ok(bytes)

\* SigningKey::sign(msg) followed by <[u8; 64]>::from(signature): R is
\* bound to the message, s to the key.
SigningKey_sign(sk, msg) ==
    (<<Len(msg)>> \o msg \o Zeros(KEY_LENGTH - 1 - Len(msg)))
    \o [j \in 1..KEY_LENGTH |-> (sk[j] + 2 * j) % 256]

\* The signature every message has under the identity point.
IdentitySignature == IdentityPoint \o Zeros(KEY_LENGTH)

\* VerificationKey::verify(&signature, msg).
VerificationKey_verify(pk, signature, msg) ==
    IF \/ \E sk \in SigningKeys :
             PublicOf(sk) = pk /\ signature = SigningKey_sign(sk, msg)
       \/ pk = IdentityPoint /\ signature = IdentitySignature
    THEN Ok(<<>>)
    ELSE Err("InvalidSignature")

\* ----------------------------------------------------------- the adapter
ED25519_MAGIC_BYTES == <<237, 1>>

\* struct Ed25519KeyMaterial(pub Ed25519PublicKey, pub Option<Ed25519PrivateKey>):
\* field .0 is public_key, field .1 is private_key.
Ed25519KeyMaterial(public_key, private_key) ==
    [public_key |-> public_key, private_key |-> private_key]

\* A variant that reads the key from the last 32 bytes of its input.
bytes_to_ed25519_key_tail(bytes) ==
    LET public_key == VerificationKey_try_from(
            IF Len(bytes) > KEY_LENGTH
            THEN SubSeq(bytes, Len(bytes) - KEY_LENGTH + 1, Len(bytes))
            ELSE bytes)
    IN  IF ~public_key.ok THEN Err(public_key.err)
        ELSE Ok(Ed25519KeyMaterial(public_key.val, None))

bytes_to_ed25519_key(bytes) ==
    LET public_key == VerificationKey_try_from(bytes)
    IN  IF ~public_key.ok THEN Err(public_key.err)
        ELSE Ok(Ed25519KeyMaterial(public_key.val, None))

get_jwt_algorithm_name(self) == <<"E", "d", "D", "S", "A">>

\* The literal "did:key:z" of the format string.
DID_KEY_PREFIX == <<"d", "i", "d", ":", "k", "e", "y", ":", "z">>

\* A variant that encodes the key without its two tag bytes.
get_did_untagged(self) ==
    Ok(DID_KEY_PREFIX \o bs58_encode(self.public_key))

\* A variant that omits the multibase letter z.
get_did_no_multibase(self) ==
    LET bytes == ED25519_MAGIC_BYTES \o self.public_key
    IN  Ok(SubSeq(DID_KEY_PREFIX, 1, Len(DID_KEY_PREFIX) - 1) \o bs58_encode(bytes))

get_did(self) ==
    LET bytes == ED25519_MAGIC_BYTES \o self.public_key
    IN  Ok(DID_KEY_PREFIX \o bs58_encode(bytes))

\* A variant that signs the payload without its last byte.
sign_short_payload(self, payload) ==
    IF self.private_key.some
    THEN Ok(SigningKey_sign(self.private_key.key,
                            SubSeq(payload, 1, Len(payload) - 1)))
    ELSE Err("No private key; cannot sign data")

\* A variant that returns a default signature when there is no private key.
sign_or_default(self, payload) ==
    IF self.private_key.some
    THEN Ok(SigningKey_sign(self.private_key.key, payload))
    ELSE Ok(Zeros(SIGNATURE_LENGTH))

sign(self, payload) ==
    IF self.private_key.some
    THEN Ok(SigningKey_sign(self.private_key.key, payload))
    ELSE Err("No private key; cannot sign data")

\* A variant that decodes the signature and drops the primitive's verdict.
verify_decode_only(self, payload, signature) ==
    LET decoded == Signature_try_from(signature)
    IN  IF ~decoded.ok THEN Err(decoded.err) ELSE Ok(<<>>)

\* A variant that reads the first 64 bytes of a longer signature.
verify_truncating(self, payload, signature) ==
    LET decoded == Signature_try_from(
            IF Len(signature) > SIGNATURE_LENGTH
            THEN SubSeq(signature, 1, SIGNATURE_LENGTH) ELSE signature)
    IN  IF ~decoded.ok THEN Err(decoded.err)
        ELSE VerificationKey_verify(self.public_key, decoded.val, payload)

\* A variant that verifies against the public key of its own private key
\* when it holds one.
verify_with_own_key(self, payload, signature) ==
    LET decoded == Signature_try_from(signature)
    IN  IF ~decoded.ok THEN Err(decoded.err)
        ELSE VerificationKey_verify(
                 IF self.private_key.some THEN PublicOf(self.private_key.key)
                 ELSE self.public_key,
                 decoded.val, payload)

\* A variant that refuses to verify without a private key.
verify_requiring_private_key(self, payload, signature) ==
    LET decoded == Signature_try_from(signature)
    IN  IF ~self.private_key.some THEN Err("No private key; cannot sign data")
        ELSE IF ~decoded.ok THEN Err(decoded.err)
        ELSE VerificationKey_verify(self.public_key, decoded.val, payload)

verify(self, payload, signature) ==
    LET decoded == Signature_try_from(signature)
    IN  IF ~decoded.ok THEN Err(decoded.err)
        ELSE VerificationKey_verify(self.public_key, decoded.val, payload)

\* ------------------------------------------------- the caller's DidParser
\* DidParser::new(&[(ED25519_MAGIC_BYTES, bytes_to_ed25519_key)]).parse(did):
\* strip "did:key:z", base58-decode, dispatch on the two tag bytes.
DidParser_parse(did) ==
    IF Len(did) < Len(DID_KEY_PREFIX)
       \/ SubSeq(did, 1, Len(DID_KEY_PREFIX)) # DID_KEY_PREFIX
    THEN Err("Expected valid did:key")
    ELSE LET decoded == bs58_decode(SubSeq(did, Len(DID_KEY_PREFIX) + 1, Len(did)))
         IN  IF ~decoded.ok THEN Err(decoded.err)
             ELSE IF Len(decoded.val) < 2
                     \/ SubSeq(decoded.val, 1, 2) # ED25519_MAGIC_BYTES
             THEN Err("Unrecognized magic bytes")
             ELSE bytes_to_ed25519_key(SubSeq(decoded.val, 3, Len(decoded.val)))

\* Ucan::check_signature(did_parser) for a token issued by `issuer_did`:
\* the key is rebuilt from the DID and verifies the signed payload.
check_signature(issuer_did, payload, signature) ==
    LET key == DidParser_parse(issuer_did)
    IN  IF ~key.ok THEN Err(key.err)
        ELSE verify(key.val, payload, signature)

\* ------------------------------------------------------------- the state
VARIABLES
    km,    \* the key material instance the callers share
    ctor,  \* the last construction: the function, its input, its outcome
    call   \* per caller: the call it has in flight or has got back

vars == <<km, ctor, call>>

\* Number of concurrent callers of SpecShared.
NumCallers == 2

Callers == 1..NumCallers

\* The value km holds while no instance has been constructed.
NoKeyMaterial == Ed25519KeyMaterial(<<>>, None)

NoReturn == Err("pending")

\* src tells where the call's signature comes from: "input" (the caller
\* supplied it), "signed" (it is what the caller's sign call returned, for
\* the payload `signed`) or "flipped" (that, with one bit inverted).
Idle == [st |-> "idle", op |-> "-", payload |-> <<>>, signature |-> <<>>,
         src |-> "-", signed |-> <<>>, ret |-> NoReturn]

Init ==
    /\ km = NoKeyMaterial
    /\ ctor = [fn |-> "-", input |-> <<>>, ok |-> FALSE, err |-> "-",
               made |-> NoKeyMaterial]
    /\ call = [c \in Callers |-> Idle]

\* --------------------------------------------------------------- actions
\* bytes_to_ed25519_key(bytes): on success the caller holds the boxed instance.
FromBytes(bytes) ==
    /\ ~ctor.ok
    /\ LET r == bytes_to_ed25519_key(bytes)
       IN  /\ km' = IF r.ok THEN r.val ELSE km
           /\ ctor' = [fn |-> "bytes_to_ed25519_key", input |-> bytes,
                       ok |-> r.ok, err |-> r.err,
                       made |-> IF r.ok THEN r.val ELSE NoKeyMaterial]
    /\ UNCHANGED call

\* Ed25519KeyMaterial(public_key, Some(private_key)): the tuple struct's
\* fields are public, no check relates the two keys.
FromPair(public_key, private_key) ==
    /\ ~ctor.ok
    /\ km' = Ed25519KeyMaterial(public_key, Some(private_key))
    /\ ctor' = [fn |-> "Ed25519KeyMaterial", input |-> <<>>, ok |-> TRUE,
                err |-> "-", made |-> km']
    /\ UNCHANGED call

\* A caller begins a call on the shared instance (the future is created).
Invoke(c, op, payload, signature) ==
    /\ ctor.ok
    /\ call[c].st = "idle"
    /\ call' = [call EXCEPT ![c] = [st |-> "pending", op |-> op,
                                    payload |-> payload,
                                    signature |-> signature,
                                    src |-> "input", signed |-> <<>>,
                                    ret |-> NoReturn]]
    /\ UNCHANGED <<km, ctor>>

\* A caller that got a signature back from sign presents it, as it is
\* (flip = -1) or with bit `flip` inverted, together with `payload`, to
\* verify or to check_signature.
Present(c, op, payload, flip) ==
    /\ ctor.ok
    /\ call[c].st = "done" /\ call[c].op = "sign" /\ call[c].ret.ok
    /\ call' = [call EXCEPT ![c] =
                    [st |-> "pending", op |-> op, payload |-> payload,
                     signature |-> IF flip = -1 THEN call[c].ret.val
                                   ELSE FlipBit(call[c].ret.val, flip),
                     src |-> IF flip = -1 THEN "signed" ELSE "flipped",
                     signed |-> call[c].payload,
                     ret |-> NoReturn]]
    /\ UNCHANGED <<km, ctor>>

Pending(c, op) == call[c].st = "pending" /\ call[c].op = op

Returned(c, r) == [call EXCEPT ![c].st = "done", ![c].ret = r]

GetJwtAlgorithmName(c) ==
    /\ Pending(c, "get_jwt_algorithm_name")
    /\ call' = Returned(c, Ok(get_jwt_algorithm_name(km)))
    /\ UNCHANGED <<km, ctor>>

GetDid(c) ==
    /\ Pending(c, "get_did")
    /\ call' = Returned(c, get_did(km))
    /\ UNCHANGED <<km, ctor>>

\* A variant of Sign that moves the private key out of the instance.
SignTakingKey(c) ==
    /\ Pending(c, "sign")
    /\ call' = Returned(c, sign(km, call[c].payload))
    /\ km' = [km EXCEPT !.private_key = None]
    /\ UNCHANGED ctor

Sign(c) ==
    /\ Pending(c, "sign")
    /\ call' = Returned(c, sign(km, call[c].payload))
    /\ UNCHANGED <<km, ctor>>

Verify(c) ==
    /\ Pending(c, "verify")
    /\ call' = Returned(c, verify(km, call[c].payload, call[c].signature))
    /\ UNCHANGED <<km, ctor>>

\* The token's issuer is the shared instance: its DID is parsed back into a
\* verification-only key, which checks the token's signature.
CheckSignature(c) ==
    /\ Pending(c, "check_signature")
    /\ LET issuer == get_did(km)
       IN  call' = Returned(c, IF ~issuer.ok THEN Err(issuer.err)
                               ELSE check_signature(issuer.val, call[c].payload,
                                                    call[c].signature))
    /\ UNCHANGED <<km, ctor>>

\* The caller takes the result and is free to call again.
Release(c) ==
    /\ call[c].st = "done"
    /\ call' = [call EXCEPT ![c] = Idle]
    /\ UNCHANGED <<km, ctor>>

\* ---------------------------------------------------------------- inputs
\* "hello world"
Message == <<104, 101, 108, 108, 111, 32, 119, 111, 114, 108, 100>>

\* The payload with the case bit of its last byte inverted ("hello" -> "hellO").
TamperPayload(p) == FlipBit(p, 8 * (Len(p) - 1) + 5)

Payloads ==
    LET full == SubSeq(Message, 1, MaxPayloadLen)
    IN  { <<>>, SubSeq(full, 1, MaxPayloadLen - 1), full, TamperPayload(full) }

\* Bit positions of a 64-byte signature, spread from the first to the last.
FlipBits == { (k * (8 * SIGNATURE_LENGTH - 1)) \div (NumFlips - 1) : k \in 0..(NumFlips - 1) }

AllBits == 0..(8 * SIGNATURE_LENGTH - 1)

\* Byte strings handed to bytes_to_ed25519_key.
KeyByteInputs ==
    VerificationKeys
    \cup { NotAPoint, <<>>, Zeros(KEY_LENGTH - 1), Zeros(KEY_LENGTH + 1) }
    \cup { sk \o PublicOf(sk) : sk \in SigningKeys }

\* Genuine signatures: every key over every payload.
Signatures == { SigningKey_sign(sk, p) : sk \in SigningKeys, p \in Payloads }

\* Byte strings handed to verify as the signature.
SignatureInputs ==
    Signatures
    \cup { IdentitySignature, <<>> }
    \cup { SubSeq(s, 1, SIGNATURE_LENGTH - 1) : s \in Signatures }
    \cup { s \o <<0>> : s \in Signatures }

\* ------------------------------------------------------- specifications
\* One caller, every constructor and operation, the inputs above.
Next ==
    \/ \E bytes \in KeyByteInputs : FromBytes(bytes)
    \/ \E pk \in VerificationKeys, sk \in SigningKeys : FromPair(pk, sk)
    \/ \E op \in {"get_jwt_algorithm_name", "get_did"} : Invoke(1, op, <<>>, <<>>)
    \/ \E p \in Payloads : Invoke(1, "sign", p, <<>>)
    \/ \E op \in {"verify", "check_signature"}, p \in Payloads, s \in SignatureInputs :
          Invoke(1, op, p, s)
    \/ \E op \in {"verify", "check_signature"}, p \in Payloads, f \in {-1} \cup FlipBits :
          Present(1, op, p, f)
    \/ GetJwtAlgorithmName(1)
    \/ GetDid(1)
    \/ Sign(1)
    \/ Verify(1)
    \/ CheckSignature(1)
    \/ Release(1)

Spec == Init /\ [][Next]_vars

\* One caller holding a matching key pair signs a payload and verifies the
\* signature with each single bit inverted, or against another payload.
NextTamper ==
    \/ \E sk \in SigningKeys : FromPair(PublicOf(sk), sk)
    \/ \E p \in Payloads : Invoke(1, "sign", p, <<>>)
    \/ Sign(1)
    \/ \E f \in AllBits : Present(1, "verify", call[1].payload, f)
    \/ \E p \in Payloads : Present(1, "verify", p, -1)
    \/ Verify(1)
    \/ Release(1)

SpecTamper == Init /\ [][NextTamper]_vars

\* Several callers share one instance; their calls interleave.
SharedPayload == SubSeq(Message, 1, MaxPayloadLen)

NextShared ==
    \/ FromBytes(PublicOf(SigningKey(1)))
    \/ \E pk \in VerificationKeys : FromPair(pk, SigningKey(1))
    \/ \E c \in Callers :
          \/ \E op \in {"get_jwt_algorithm_name", "get_did"} : Invoke(c, op, <<>>, <<>>)
          \/ Invoke(c, "sign", SharedPayload, <<>>)
          \/ \E s \in {SigningKey_sign(SigningKey(1), SharedPayload), <<>>} :
                Invoke(c, "verify", SharedPayload, s)
          \/ GetJwtAlgorithmName(c)
          \/ GetDid(c)
          \/ Sign(c)
          \/ Verify(c)
          \/ Release(c)

SpecShared == Init /\ [][NextShared]_vars
\* ---------------------------------------------------------------- claims
Done(c, op) == call[c].st = "done" /\ call[c].op = op

\* The instance holds a private key and the public key derived from it.
Corresponding(k) ==
    k.private_key.some /\ k.public_key = PublicOf(k.private_key.key)

\* The instance holds a private key and some other key's public key.
Mismatched(k) ==
    k.private_key.some /\ k.public_key # PublicOf(k.private_key.key)

\* The error kinds of the adapter's contract, by the error the code returns.
MissingSigningKey(r) == ~r.ok /\ r.err = "No private key; cannot sign data"
InvalidKeyEncoding(r) == ~r.ok /\ r.err \in {"InvalidSliceLength", "MalformedPublicKey"}
InvalidSignatureEncoding(r) == ~r.ok /\ r.err = "InvalidSliceLength"
SignatureVerificationFailed(r) == ~r.ok /\ r.err = "InvalidSignature"

\* What the call cl returns when made on the instance k.
ResultOn(k, cl) ==
    CASE cl.op = "get_jwt_algorithm_name" -> Ok(get_jwt_algorithm_name(k))
      [] cl.op = "get_did" -> get_did(k)
      [] cl.op = "sign" -> sign(k, cl.payload)
      [] cl.op = "verify" -> verify(k, cl.payload, cl.signature)

\* The 34 bytes a DID string carries after "did:key:z".
DidPayload(did) == bs58_decode(SubSeq(did, 10, Len(did)))

\* C1: on an instance whose private key corresponds to its public key, sign
\* succeeds for every payload, and verify of that payload with the signature
\* sign returned succeeds.
C1_SignThenVerifySucceeds ==
    \A c \in Callers :
        Corresponding(km) =>
            /\ Done(c, "sign") => call[c].ret.ok
            /\ ( /\ Done(c, "verify")
                 /\ call[c].src = "signed"
                 /\ call[c].payload = call[c].signed ) => call[c].ret.ok

C1_Witness ==
    \E c \in Callers :
        /\ Corresponding(km)
        /\ Done(c, "verify")
        /\ call[c].src = "signed"
        /\ call[c].payload = call[c].signed
        /\ Len(call[c].payload) = MaxPayloadLen
        /\ call[c].ret.ok

\* C2: on an instance whose keys correspond, verify of the signed payload
\* with the signature changed in any single bit fails with
\* SignatureVerificationFailed, and verify of any other payload with the
\* unchanged signature fails.
C2_TamperedInputRejected ==
    \A c \in Callers :
        (Corresponding(km) /\ Done(c, "verify")) =>
            /\ (call[c].src = "flipped" /\ call[c].payload = call[c].signed)
                   => SignatureVerificationFailed(call[c].ret)
            /\ (call[c].src = "signed" /\ call[c].payload # call[c].signed)
                   => ~call[c].ret.ok

C2_Witness ==
    \E c \in Callers :
        /\ Corresponding(km)
        /\ Done(c, "verify")
        /\ call[c].src = "flipped"
        /\ call[c].payload = call[c].signed
        /\ call[c].signature = FlipBit(SigningKey_sign(km.private_key.key, call[c].signed),
                                       8 * SIGNATURE_LENGTH - 1)
        /\ SignatureVerificationFailed(call[c].ret)

\* C3: an instance made by bytes_to_ed25519_key has no private key; sign on
\* an instance without a private key fails with MissingSigningKey and
\* returns no signature bytes; sign succeeds exactly when the private key is
\* present.
C3_SignNeedsPrivateKey ==
    /\ (ctor.fn = "bytes_to_ed25519_key" /\ ctor.ok) => ~km.private_key.some
    /\ \A c \in Callers :
           Done(c, "sign") =>
               /\ ~km.private_key.some =>
                      (MissingSigningKey(call[c].ret) /\ call[c].ret.val = <<>>)
               /\ call[c].ret.ok <=> km.private_key.some

C3_Witness ==
    \E c \in Callers :
        /\ ctor.fn = "bytes_to_ed25519_key" /\ ctor.ok
        /\ Done(c, "sign")
        /\ MissingSigningKey(call[c].ret)

\* C4: bytes_to_ed25519_key on a byte string whose length is not 32 fails
\* with InvalidKeyEncoding and leaves the caller without an instance.
C4_WrongLengthKeyRejected ==
    (ctor.fn = "bytes_to_ed25519_key" /\ Len(ctor.input) # 32) =>
        /\ InvalidKeyEncoding(ctor)
        /\ km = NoKeyMaterial

C4_Witness ==
    /\ ctor.fn = "bytes_to_ed25519_key"
    /\ Len(ctor.input) = 64
    /\ InvalidKeyEncoding(ctor)

\* C5: get_did succeeds with "did:key:z" followed by the base58btc text of
\* 0xed 0x01 || public key; decoding that text gives 34 bytes, the tag and
\* then the public key, and no other public key has the same DID.
C5_DidRoundTrip ==
    \A c \in Callers :
        Done(c, "get_did") =>
            /\ call[c].ret.ok
            /\ LET did == call[c].ret.val
               IN  /\ Len(did) > 9
                   /\ SubSeq(did, 1, 9) = <<"d", "i", "d", ":", "k", "e", "y", ":", "z">>
                   /\ SubSeq(did, 10, Len(did)) = bs58_encode(<<237, 1>> \o km.public_key)
                   /\ DidPayload(did).ok
                   /\ Len(DidPayload(did).val) = 34
                   /\ SubSeq(DidPayload(did).val, 1, 2) = <<237, 1>>
                   /\ SubSeq(DidPayload(did).val, 3, 34) = km.public_key
                   /\ \A pk \in VerificationKeys \ {km.public_key} :
                          get_did(Ed25519KeyMaterial(pk, None)).val # did

C5_Witness ==
    \E c \in Callers :
        /\ Done(c, "get_did")
        /\ call[c].ret.ok
        /\ km.public_key = PublicOf(SigningKey(NumKeys))
        /\ DidPayload(call[c].ret.val).ok

\* C6: for an instance whose keys correspond, the key rebuilt from the
\* instance's DID (tag dispatch to bytes_to_ed25519_key) is constructed and
\* accepts the signature the instance made for the payload.
C6_RebuiltKeyAcceptsSignature ==
    \A c \in Callers :
        ( /\ Corresponding(km)
          /\ Done(c, "check_signature")
          /\ call[c].src = "signed"
          /\ call[c].payload = call[c].signed ) => call[c].ret.ok

C6_Witness ==
    \E c \in Callers :
        /\ Corresponding(km)
        /\ Done(c, "check_signature")
        /\ call[c].src = "signed"
        /\ call[c].payload = call[c].signed
        /\ Len(call[c].payload) = MaxPayloadLen
        /\ call[c].ret.ok

\* C7: whatever calls the callers have made and in whatever order, the
\* shared instance still equals the instance as constructed, and the result
\* each call returned is the result of that call on the instance as
\* constructed.
C7_InstanceImmutable ==
    ctor.ok =>
        /\ km = ctor.made
        /\ \A c \in Callers :
               call[c].st = "done" => call[c].ret = ResultOn(ctor.made, call[c])

C7_Witness ==
    \E c, d \in Callers :
        /\ c # d
        /\ Done(c, "sign") /\ call[c].ret.ok
        /\ Done(d, "verify") /\ call[d].ret.ok

\* C8: verify fails with InvalidSignatureEncoding on every signature that is
\* not 64 bytes long, fails with SignatureVerificationFailed whenever it
\* fails on a 64-byte signature, and succeeds only on 64-byte signatures.
C8_DecodeBeforeVerify ==
    \A c \in Callers :
        Done(c, "verify") =>
            /\ Len(call[c].signature) # 64 =>
                   (InvalidSignatureEncoding(call[c].ret)
                    /\ ~SignatureVerificationFailed(call[c].ret))
            /\ (Len(call[c].signature) = 64 /\ ~call[c].ret.ok) =>
                   (SignatureVerificationFailed(call[c].ret)
                    /\ ~InvalidSignatureEncoding(call[c].ret))
            /\ call[c].ret.ok => Len(call[c].signature) = 64

C8_Witness ==
    \E c \in Callers :
        /\ Done(c, "verify")
        /\ Len(call[c].signature) = 65
        /\ InvalidSignatureEncoding(call[c].ret)

\* C9: on an instance whose private key does not correspond to its public
\* key, sign succeeds with the 64-byte signature of the private key, get_did
\* encodes the public key, and verify of a payload with the signature the
\* instance made for it fails with SignatureVerificationFailed.
C9_MismatchedPairNotChecked ==
    \A c \in Callers :
        Mismatched(km) =>
            /\ Done(c, "sign") =>
                   /\ call[c].ret.ok
                   /\ Len(call[c].ret.val) = 64
                   /\ call[c].ret.val = SigningKey_sign(km.private_key.key, call[c].payload)
            /\ Done(c, "get_did") =>
                   /\ call[c].ret.ok
                   /\ DidPayload(call[c].ret.val).ok
                   /\ DidPayload(call[c].ret.val).val = <<237, 1>> \o km.public_key
            /\ ( /\ Done(c, "verify")
                 /\ call[c].src = "signed"
                 /\ call[c].payload = call[c].signed )
                   => SignatureVerificationFailed(call[c].ret)

C9_Witness ==
    \E c \in Callers :
        /\ Mismatched(km)
        /\ ctor.fn = "Ed25519KeyMaterial"
        /\ Done(c, "verify")
        /\ call[c].src = "signed"
        /\ call[c].payload = call[c].signed
        /\ SignatureVerificationFailed(call[c].ret)

\* C10: get_jwt_algorithm_name, get_did and verify return on the instance
\* what they return on the instance with the same public key and no private
\* key; the algorithm name is "EdDSA".
C10_PrivateKeyOnlyAffectsSign ==
    \A c \in Callers :
        (call[c].st = "done"
         /\ call[c].op \in {"get_jwt_algorithm_name", "get_did", "verify"}) =>
            /\ call[c].ret = ResultOn(Ed25519KeyMaterial(km.public_key, None), call[c])
            /\ call[c].op = "get_jwt_algorithm_name" =>
                   call[c].ret.val = <<"E", "d", "D", "S", "A">>

C10_Witness ==
    \E c \in Callers :
        /\ Mismatched(km)
        /\ Done(c, "verify")
        /\ call[c].src = "input"
        /\ call[c].ret.ok
====
